---- MODULE Spec2Model ----
(***************************************************************************)
(* Hotspot billing server (src/server.js): the MikroTik session manager,   *)
(* the plan directory sync, the hotspot user provisioner and the M-Pesa    *)
(* /pay and /callback handlers, as interleaved asynchronous handlers of    *)
(* one Node.js process.  A handler runs atomically between two awaits; an  *)
(* action below is one such stretch, joined to the store statement or the  *)
(* controller command whose completion starts it.                          *)
(***************************************************************************)
EXTENDS Integers, Sequences, FiniteSets, TLC

\* ------------------------------------------------------------------ bounds
\* RouterOSAPI objects the process may construct in one run of the model.
MaxApis == 3
\* Runs of syncPlansToMikrotik (the start-up run and the interval ticks).
MaxSyncRuns == 2
\* Deliveries of POST /callback (and so calls of createHotspotUser).
MaxCallbacks == 2
\* POST /pay requests.
MaxPay == 2
\* Clock ticks of the store's NOW().
MaxTime == 2

\* ------------------------------------------------------------------ values
NULL == 0

\* Phone numbers, as the sequence of their characters (digits 0..9; 10 stands
\* for a character that is not a digit).
PhoneA == <<2, 5, 4, 7, 1, 2, 3, 4, 5, 6, 7, 8>>
PhoneB == <<2, 5, 4, 7, 0, 0, 0, 0, 0, 0, 0, 1>>
PhoneLocal == <<0, 7, 1, 2, 3, 4, 5, 6, 7, 8>>
PhoneLong == <<2, 5, 4, 7, 1, 2, 3, 4, 5, 6, 7, 8, 9>>
PhoneAlpha == <<2, 5, 4, 7, 1, 2, 3, 4, 5, 6, 7, 10>>
NoPhone == <<>>
Phones == {PhoneA, PhoneB}

\* The plans table (the core only reads it).  Plans 1 and 3 are active and
\* share a price; plan 2 is inactive and has that price too; plan 4 is active
\* with an empty profile name; plan 5 is inactive and alone at its price.
Plans ==
  << [id |-> 1, price |-> 50, duration |-> 1, profile_name |-> "basic",
      rate_limit |-> "1M/1M", active |-> TRUE],
     [id |-> 2, price |-> 50, duration |-> 2, profile_name |-> "old",
      rate_limit |-> "", active |-> FALSE],
     [id |-> 3, price |-> 50, duration |-> 2, profile_name |-> "plus",
      rate_limit |-> "", active |-> TRUE],
     [id |-> 4, price |-> 80, duration |-> 2, profile_name |-> "",
      rate_limit |-> "", active |-> TRUE],
     [id |-> 5, price |-> 7, duration |-> 1, profile_name |-> "gone",
      rate_limit |-> "", active |-> FALSE] >>

PlanIds == 1..Len(Plans)
ProfileNames == {Plans[i].profile_name : i \in PlanIds}

VARIABLES
  mikrotikApi,   \* server.js:41  the RouterOSAPI object last constructed, or NULL
  mikrotikConn,  \* server.js:42  the held connection (an api id), or NULL
  apiState,      \* each RouterOSAPI object's transport state
  startPc,       \* the app.listen callback's position
  timerArmed,    \* whether setInterval(syncPlansToMikrotik) has been called
  sync,          \* the runs of syncPlansToMikrotik
  prov,          \* the calls of createHotspotUser
  profiles,      \* controller: names of the hotspot user profiles
  hsUsers,       \* controller: hotspot users, phone -> profile
  ctlLog,        \* history: profile adds issued per name, overlapping runs
  pay,           \* the POST /pay requests
  cb,            \* the POST /callback deliveries
  tx,            \* store: the transactions table, by id
  users,         \* store: the users table, by phone_number
  now,           \* store: NOW() of the latest statement that read it
  grants,        \* history: extensions of active_until made for each transaction
  fmt            \* a call of formatDurationForRouterOS: its argument and results

sessVars == <<mikrotikApi, mikrotikConn, apiState>>
ctlVars == <<profiles, hsUsers, ctlLog>>
payVars == <<pay, cb, tx, users, now, grants>>
vars == <<mikrotikApi, mikrotikConn, apiState, startPc, timerArmed, sync, prov,
          profiles, hsUsers, ctlLog, pay, cb, tx, users, now, grants, fmt>>

ApiIds == 1..MaxApis
SyncIds == 1..MaxSyncRuns
CbIds == 1..MaxCallbacks

\* ------------------------------------------------- controller session manager
NumApis == Cardinality({a \in ApiIds : apiState[a] # "none"})
CanConstruct == NumApis < MaxApis
FreshApi == NumApis + 1
Connecting(a) == apiState[a] \in {"connecting", "errconn"}
Live(a) == apiState[a] \in {"connecting", "connected"}

\* mikrotikConn.close() when a connection is held (server.js:51, 87).
CloseHeld(st) ==
  IF mikrotikConn # NULL THEN [st EXCEPT ![mikrotikConn] = "closed"] ELSE st

\* connector.on("error") handler: close the held connection, drop both references.
ErrorHandlerNoReset(a) ==
  /\ apiState' = [CloseHeld(apiState) EXCEPT
                    ![a] = IF apiState[a] = "connecting" THEN "errconn" ELSE "errored"]
  /\ UNCHANGED <<mikrotikApi, mikrotikConn>>

ErrorHandler(a) ==
  /\ apiState' = [CloseHeld(apiState) EXCEPT
                    ![a] = IF apiState[a] = "connecting" THEN "errconn" ELSE "errored"]
  /\ mikrotikApi' = NULL
  /\ mikrotikConn' = NULL

\* connectMikrotik, no connection held: construct a RouterOSAPI, attach the
\* handlers, start api.connect() and wait.
ConnectBegin(a) ==
  /\ mikrotikConn = NULL
  /\ CanConstruct
  /\ a = FreshApi
  /\ mikrotikApi' = a
  /\ apiState' = [apiState EXCEPT ![a] = "connecting"]
  /\ UNCHANGED mikrotikConn

\* connectMikrotik, api.connect() resolved: hold the connection.
ConnectResolve(a) ==
  /\ apiState[a] = "connecting"
  /\ mikrotikConn' = a
  /\ apiState' = [apiState EXCEPT ![a] = "connected"]
  /\ UNCHANGED mikrotikApi

\* connectMikrotik, api.connect() rejected (refused, timed out, transport
\* error): the catch block closes the held connection, drops both references
\* and rethrows.
ConnectCatchKeepApi(a) ==
  /\ Connecting(a)
  /\ apiState' = [CloseHeld(apiState) EXCEPT ![a] = "failed"]
  /\ mikrotikConn' = NULL
  /\ UNCHANGED mikrotikApi

ConnectCatch(a) ==
  /\ Connecting(a)
  /\ apiState' = [CloseHeld(apiState) EXCEPT ![a] = "failed"]
  /\ mikrotikApi' = NULL
  /\ mikrotikConn' = NULL

\* A transport error event of a RouterOSAPI object, at any time it is connecting
\* or connected.
ErrorEvent(a) ==
  /\ Live(a)
  /\ ErrorHandler(a)
  /\ UNCHANGED <<fmt, startPc, timerArmed, sync, prov, profiles, hsUsers, ctlLog, payVars>>

\* -------------------------------------------------- controller command executor
\* A value the controller client hands back: a list of records, a single
\* record, nothing, or a cursor whose read() yields such values in turn.
Arr(s) == [t |-> "arr", v |-> s]
Obj(x) == [t |-> "obj", v |-> <<x>>]
Nil == [t |-> "nil", v |-> <<>>]
Cur(rs) == [t |-> "cur", v |-> rs]

\* [x]: the one-element list of a value handed back; a record is an element
\* as it is, a list or nothing stays the tagged value it is.
Wrapped(x) == IF x.t = "obj" THEN Arr(x.v) ELSE Arr(<<x>>)

\* routerPrint on a response that arrived (server.js:121-122): a cursor is
\* read for the test and read again for the value.
routerPrint(res) ==
  IF res.t = "cur"
    THEN IF res.v[1].t = "arr" THEN res.v[2] ELSE Wrapped(res.v[2])
    ELSE IF res.t = "arr" THEN res
    ELSE IF res.t = "obj" THEN Wrapped(res)
    ELSE Arr(<<>>)

\* routerPrint when conn.write or read() throws (server.js:123-126).
routerPrintFailed == Arr(<<>>)

\* items.length > 0 (server.js:142); reading the length of a missing value
\* throws into the empty catch of line 143, which leaves found false.
ItemsFound(items) == items.t = "arr" /\ Len(items.v) > 0

\* The shapes in which the client may hand back the records m of a print: the
\* list, a single record, nothing, or a cursor.  A cursor's read() yields the
\* list or the single record; a second read() yields the same or, the cursor
\* being drained, the empty list or nothing.
ReadVals(m) == {Arr(m)} \cup (IF Len(m) = 1 THEN {Obj(m[1])} ELSE {})
Responses(m) ==
  ReadVals(m) \cup (IF Len(m) = 0 THEN {Nil} ELSE {})
    \cup {Cur(<<r1, r2>>) : r1 \in ReadVals(m), r2 \in ReadVals(m) \cup {Arr(<<>>), Nil}}

\* A command written on conn can succeed only while its transport is connected.
CanSucceed(conn) == apiState[conn] = "connected"

\* ------------------------------------------------------------ plan directory sync
\* The active plans in table order (server.js:132-135).
ActivePlanIds == {i \in PlanIds : Plans[i].active}
Named(i) == Plans[i].profile_name # ""
ActiveNamed == {i \in ActivePlanIds : Named(i)}

\* The next plan of the loop after plan i that is not skipped by line 138,
\* or 0 when the loop is over.
NextPlan(i) ==
  IF \E j \in ActiveNamed : j > i
    THEN CHOOSE j \in ActiveNamed : j > i /\ \A k \in ActiveNamed : k > i => j <= k
    ELSE 0

\* The loop after a failed profile add (server.js:153-155): log, next plan.
AfterAddFailedAbort(i) == 0

AfterAddFailed(i) == NextPlan(i)

IdleSync == [pc |-> "idle", i |-> 0, api |-> NULL, conn |-> NULL,
             looked |-> {}, absent |-> {}, added |-> {}, failed |-> {},
             res |-> Nil, items |-> Arr(<<>>)]

SyncsStarted == Cardinality({r \in SyncIds : sync[r].pc # "idle"})
Running(r) == sync[r].pc \in {"connecting", "lookup", "add"}

\* The run's position once it holds conn: the first plan, or done.
Looping(run, conn) ==
  [run EXCEPT !.conn = conn, !.api = NULL, !.i = NextPlan(0),
              !.pc = IF NextPlan(0) = 0 THEN "done" ELSE "lookup"]

\* The run's position after plan i has been dealt with.
Advance(run, nxt) ==
  [run EXCEPT !.i = nxt, !.pc = IF nxt = 0 THEN "done" ELSE "lookup"]

\* What the end of run r means to its caller: app.listen awaits the first run
\* and then calls setInterval (server.js:324-325).
SyncEnds(r, run) ==
  IF r = 1 /\ run.pc = "done"
    THEN startPc' = "armed" /\ timerArmed' = TRUE
    ELSE UNCHANGED <<startPc, timerArmed>>

\* app.listen callback, first stretch: connectMikrotik() (server.js:323).
StartListen ==
  /\ startPc = "init"
  /\ ConnectBegin(FreshApi)
  /\ startPc' = "connecting"
  /\ UNCHANGED <<fmt, timerArmed, sync, prov, profiles, hsUsers, ctlLog, payVars>>

\* The start-up connect resolved: syncPlansToMikrotik() starts and finds the
\* connection held.
StartConnected ==
  /\ startPc = "connecting"
  /\ ConnectResolve(1)
  /\ LET run == Looping(IdleSync, 1)
     IN /\ sync' = [sync EXCEPT ![1] = run]
        /\ IF run.pc = "done"
             THEN startPc' = "armed" /\ timerArmed' = TRUE
             ELSE startPc' = "sync" /\ UNCHANGED timerArmed
  /\ UNCHANGED <<fmt, prov, profiles, hsUsers, ctlLog, payVars>>

\* The start-up connect failed: connectMikrotik rethrows into the catch of the
\* app.listen callback, which logs a warning (server.js:326-328).
StartConnectFailed ==
  /\ startPc = "connecting"
  /\ ConnectCatch(1)
  /\ startPc' = "failed"
  /\ UNCHANGED <<fmt, timerArmed, sync, prov, profiles, hsUsers, ctlLog, payVars>>

\* setInterval tick: a further run starts with connectMikrotik (server.js:131),
\* which returns the held connection or starts a connect.
SyncTick ==
  /\ timerArmed
  /\ SyncsStarted < MaxSyncRuns
  /\ LET r == SyncsStarted + 1
         overlap == \E q \in SyncIds : Running(q)
     IN /\ IF mikrotikConn # NULL
             THEN /\ sync' = [sync EXCEPT ![r] = Looping(IdleSync, mikrotikConn)]
                  /\ UNCHANGED sessVars
             ELSE /\ ConnectBegin(FreshApi)
                  /\ sync' = [sync EXCEPT ![r] =
                                [IdleSync EXCEPT !.pc = "connecting", !.api = FreshApi]]
        /\ ctlLog' = [ctlLog EXCEPT !.overlap = @ \/ overlap]
  /\ UNCHANGED <<fmt, startPc, timerArmed, prov, profiles, hsUsers, payVars>>

\* The run's connect resolved: the plans are read and the loop starts.
SyncConnected(r) ==
  /\ sync[r].pc = "connecting"
  /\ ConnectResolve(sync[r].api)
  /\ sync' = [sync EXCEPT ![r] = Looping(sync[r], sync[r].api)]
  /\ UNCHANGED <<fmt, startPc, timerArmed, prov, profiles, hsUsers, ctlLog, payVars>>

\* The run's connect failed: connectMikrotik rethrows and the outer catch of
\* syncPlansToMikrotik ends the run (server.js:158-160).
SyncConnectFailed(r) ==
  /\ sync[r].pc = "connecting"
  /\ ConnectCatch(sync[r].api)
  /\ sync' = [sync EXCEPT ![r] = [@ EXCEPT !.pc = "done", !.api = NULL]]
  /\ UNCHANGED <<fmt, startPc, timerArmed, prov, profiles, hsUsers, ctlLog, payVars>>

\* The profile print of plan sync[r].i comes back (server.js:139-145): found
\* profiles are skipped, the others go on to the add.
SyncLookup(r) ==
  /\ sync[r].pc = "lookup"
  /\ LET i == sync[r].i
         name == Plans[i].profile_name
         there == name \in profiles
         m == IF there THEN <<name>> ELSE <<>>
     IN \E ok \in BOOLEAN :
          /\ ok => CanSucceed(sync[r].conn)
          /\ \E res \in (IF ok THEN Responses(m) ELSE {Nil}) :
               LET items == IF ok THEN routerPrint(res) ELSE routerPrintFailed
                   found == ItemsFound(items)
                   seen == [sync[r] EXCEPT
                              !.looked = @ \cup {i},
                              !.absent = IF there THEN @ ELSE @ \cup {i},
                              !.failed = IF ok THEN @ ELSE @ \cup {i},
                              !.res = res, !.items = items]
                   run == IF found THEN Advance(seen, NextPlan(i))
                                   ELSE [seen EXCEPT !.pc = "add"]
               IN /\ sync' = [sync EXCEPT ![r] = run]
                  /\ SyncEnds(r, run)
  /\ UNCHANGED <<fmt, sessVars, prov, ctlVars, payVars>>

\* The profile add of plan sync[r].i comes back (server.js:146-155).
SyncAdd(r) ==
  /\ sync[r].pc = "add"
  /\ LET i == sync[r].i
         name == Plans[i].profile_name
     IN \E ok \in BOOLEAN :
          /\ ok => CanSucceed(sync[r].conn)
          /\ LET seen == [sync[r] EXCEPT !.added = @ \cup {i},
                                         !.failed = IF ok THEN @ ELSE @ \cup {i}]
                 run == Advance(seen, IF ok THEN NextPlan(i) ELSE AfterAddFailed(i))
             IN /\ sync' = [sync EXCEPT ![r] = run]
                /\ SyncEnds(r, run)
          /\ profiles' = IF ok THEN profiles \cup {name} ELSE profiles
          /\ ctlLog' = [ctlLog EXCEPT !.adds[name] = @ + 1]
  /\ UNCHANGED <<fmt, sessVars, prov, hsUsers, payVars>>

\* ------------------------------------------------------- entitlement provisioner
NoUser == "-"

IdleProv == [pc |-> "idle", phone |-> NoPhone, profile |-> "", api |-> NULL,
             conn |-> NULL, log |-> <<>>]

\* A webhook's body as the handler reads it (server.js:251-252, 262-268): the
\* correlation id (NULL when missing), the result code, whether the callback
\* metadata with its item list is there, and the Amount and PhoneNumber items.
Payload(cid, rc, meta, amount, phone) ==
  [cid |-> cid, rc |-> rc, meta |-> meta, amount |-> amount, phone |-> phone]
NoPayload == Payload(NULL, 1, FALSE, NULL, NoPhone)

IdleCb == [pc |-> "idle", req |-> NoPayload, txId |-> NULL, amount |-> NULL,
           paidPhone |-> NoPhone, profile |-> "", resp |-> 0]

\* The handler's response (res.json is 200, res.status(n) is n); its locals die.
Responded(c, status) ==
  [IdleCb EXCEPT !.pc = "done", !.resp = status, !.txId = c.txId, !.req = c.req]

\* createHotspotUser returns or throws into /callback (server.js:289), which
\* logs a failure and answers "Callback processed" either way (server.js:296).
ProvEndsFailing(h) ==
  cb' = IF cb[h].pc = "provision"
          THEN [cb EXCEPT ![h] = Responded(cb[h], IF prov'[h].pc = "threw" THEN 500 ELSE 200)]
          ELSE cb

ProvEnds(h) ==
  cb' = IF cb[h].pc = "provision" THEN [cb EXCEPT ![h] = Responded(cb[h], 200)] ELSE cb

\* createHotspotUser(phone, profileName), first stretch: connectMikrotik
\* (server.js:165) returns the held connection or starts a connect.
ProvBegin(h, phone, profile) ==
  IF mikrotikConn # NULL
    THEN /\ prov' = [prov EXCEPT ![h] = [IdleProv EXCEPT
                       !.pc = "remove", !.phone = phone, !.profile = profile,
                       !.conn = mikrotikConn]]
         /\ UNCHANGED sessVars
    ELSE /\ ConnectBegin(FreshApi)
         /\ prov' = [prov EXCEPT ![h] = [IdleProv EXCEPT
                       !.pc = "connecting", !.phone = phone, !.profile = profile,
                       !.api = FreshApi]]

\* A webhook reaches its provisioning step (the webhook itself left out).
ProvInvoke ==
  /\ startPc # "init"
  /\ \E h \in CbIds, phone \in Phones, i \in ActivePlanIds :
       /\ prov[h].pc = "idle"
       /\ \A g \in CbIds : g < h => prov[g].pc # "idle"
       /\ ProvBegin(h, phone, Plans[i].profile_name)
  /\ UNCHANGED <<fmt, startPc, timerArmed, sync, profiles, hsUsers, ctlLog, payVars>>

ProvConnected(h) ==
  /\ prov[h].pc = "connecting"
  /\ ConnectResolve(prov[h].api)
  /\ prov' = [prov EXCEPT ![h] = [@ EXCEPT !.pc = "remove", !.conn = prov[h].api,
                                           !.api = NULL]]
  /\ UNCHANGED <<fmt, startPc, timerArmed, sync, profiles, hsUsers, ctlLog, payVars>>

\* The connect failed: connectMikrotik rethrows, createHotspotUser rethrows
\* (server.js:171-174).
ProvConnectFailed(h) ==
  /\ prov[h].pc = "connecting"
  /\ ConnectCatch(prov[h].api)
  /\ prov' = [prov EXCEPT ![h] = [@ EXCEPT !.pc = "threw", !.api = NULL]]
  /\ ProvEnds(h)
  /\ UNCHANGED <<fmt, startPc, timerArmed, sync, profiles, hsUsers, ctlLog,
                 pay, tx, users, now, grants>>

\* The arguments of the two commands (server.js:166-168): the remove filters
\* on the name, the add carries the profile only when one is given.
RemoveArgs(phone) == [name |-> phone, password |-> NoPhone, profile |-> <<>>]
AddArgs(phone, profileName) ==
  [name |-> phone, password |-> phone,
   profile |-> IF profileName # "" THEN <<profileName>> ELSE <<>>]

\* A command written on the connection, with its arguments and its outcome.
Cmd(c, args, ok) == [cmd |-> c, args |-> args, ok |-> ok]

\* Where createHotspotUser goes once the remove is back (server.js:166): its
\* own try with an empty catch, so on to the add either way.
AfterRemoveAbort(ok) == IF ok THEN "add" ELSE "threw"

AfterRemove(ok) == "add"

\* Where createHotspotUser goes once the add is back (server.js:169-174): a
\* rejected write lands in the catch, which logs and rethrows.
AfterAddSwallow(ok) == "ok"

AfterAdd(ok) == IF ok THEN "ok" ELSE "threw"

\* The remove of the subscriber named phone comes back; a failure is ignored
\* (server.js:166).
ProvRemove(h) ==
  /\ prov[h].pc = "remove"
  /\ \E ok \in BOOLEAN :
       /\ ok => CanSucceed(prov[h].conn)
       /\ hsUsers' = IF ok THEN [hsUsers EXCEPT ![prov[h].phone] = NoUser] ELSE hsUsers
       /\ prov' = [prov EXCEPT ![h] = [@ EXCEPT
                     !.pc = AfterRemove(ok),
                     !.log = Append(@, Cmd("remove", RemoveArgs(prov[h].phone), ok))]]
  /\ UNCHANGED <<fmt, sessVars, startPc, timerArmed, sync, profiles, ctlLog, payVars>>

\* The add of the subscriber comes back; a failure is rethrown
\* (server.js:167-174).
ProvAdd(h) ==
  /\ prov[h].pc = "add"
  /\ \E ok \in BOOLEAN :
       /\ ok => CanSucceed(prov[h].conn)
       /\ hsUsers' = IF ok THEN [hsUsers EXCEPT ![prov[h].phone] = prov[h].profile]
                           ELSE hsUsers
       /\ prov' = [prov EXCEPT ![h] = [@ EXCEPT
                     !.pc = AfterAdd(ok),
                     !.log = Append(@, Cmd("add", AddArgs(prov[h].phone, prov[h].profile),
                                           ok))]]
  /\ ProvEnds(h)
  /\ UNCHANGED <<fmt, sessVars, startPc, timerArmed, sync, profiles, ctlLog,
                 pay, tx, users, now, grants>>

\* ------------------------------------------------------------------ POST /pay
PayIds == 1..MaxPay
NoTime == -1
\* A users row: whether it is there, its active_until and its profile binding,
\* a column that is empty unless a statement writes it.
NoRow == [exists |-> FALSE, active_until |-> NoTime, profile |-> ""]

\* The body of a /pay request (server.js:202).
PayRequest(phone, planId) == [phone |-> phone, plan_id |-> planId]
NoPayRequest == PayRequest(NoPhone, NULL)

IdlePay == [pc |-> "idle", req |-> NoPayRequest, txId |-> NULL, checkoutId |-> NULL,
            resp |-> 0]

\* /^254\d{9}$/.test(phone), and !phone for a missing or empty one (server.js:203).
ValidPhoneUnanchored(p) ==
  /\ Len(p) >= 12
  /\ p[1] = 2 /\ p[2] = 5 /\ p[3] = 4
  /\ \A i \in 4..12 : p[i] \in 0..9

ValidPhone(p) ==
  /\ Len(p) = 12
  /\ p[1] = 2 /\ p[2] = 5 /\ p[3] = 4
  /\ \A i \in 4..12 : p[i] \in 0..9

\* SELECT ... FROM plans WHERE id=$1 AND active=true (server.js:205).
ActivePlanById(id) == {i \in PlanIds : Plans[i].id = id /\ Plans[i].active}

PayPhones == {PhoneA, PhoneLocal, PhoneLong, PhoneAlpha, NoPhone}
\* Plan ids asked for: an active plan, an inactive one, a second active plan of
\* the same price, one that is not there.
PayPlanIds == {1, 2, 3, Len(Plans) + 1}
\* The requests that may arrive: the valid phone with each plan id, and each
\* phone with the active plan.
PayRequests ==
  {PayRequest(PhoneA, p) : p \in PayPlanIds} \cup {PayRequest(q, 1) : q \in PayPhones}

\* The request arrives: validation, the plan lookup and the INSERT of the
\* pending transaction (server.js:202-210).
PayReceive(k) ==
  /\ pay[k].pc = "idle"
  /\ \A j \in PayIds : j < k => pay[j].pc # "idle"
  /\ \E req \in PayRequests :
       IF ~ValidPhone(req.phone) \/ ActivePlanById(req.plan_id) = {}
         THEN /\ pay' = [pay EXCEPT ![k] = [IdlePay EXCEPT
                           !.pc = "done", !.resp = 400, !.req = req]]
              /\ UNCHANGED <<tx, grants>>
         ELSE LET plan == Plans[CHOOSE i \in ActivePlanById(req.plan_id) : TRUE]
              IN /\ tx' = Append(tx, [phone_number |-> req.phone, amount |-> plan.price,
                                      status |-> "pending", mpesa_request_id |-> NULL,
                                      mpesa_receipt |-> NULL])
                 /\ grants' = Append(grants, 0)
                 /\ pay' = [pay EXCEPT ![k] = [IdlePay EXCEPT
                              !.pc = "gateway", !.txId = Len(tx) + 1, !.req = req]]
  /\ UNCHANGED <<fmt, sessVars, startPc, timerArmed, sync, prov, ctlVars, cb, users, now>>

\* The gateway's token and push requests come back (server.js:214-235): a
\* failure is a 500, a success carries the CheckoutRequestID.
PayGateway(k) ==
  /\ pay[k].pc = "gateway"
  /\ \E ok \in BOOLEAN :
       pay' = [pay EXCEPT ![k] =
                 IF ok THEN [@ EXCEPT !.pc = "store", !.checkoutId = k]
                       ELSE [@ EXCEPT !.pc = "done", !.resp = 500]]
  /\ UNCHANGED <<fmt, sessVars, startPc, timerArmed, sync, prov, ctlVars, cb, tx, users,
                 now, grants>>

\* UPDATE transactions SET mpesa_request_id (server.js:236) and the response.
PayStoreForgotten(k) ==
  /\ pay[k].pc = "store"
  /\ pay' = [pay EXCEPT ![k] = [@ EXCEPT !.pc = "done", !.resp = 200]]
  /\ UNCHANGED <<fmt, sessVars, startPc, timerArmed, sync, prov, ctlVars, cb, tx, users, now,
                 grants>>

PayStore(k) ==
  /\ pay[k].pc = "store"
  /\ tx' = [tx EXCEPT ![pay[k].txId].mpesa_request_id = pay[k].checkoutId]
  /\ pay' = [pay EXCEPT ![k] = [@ EXCEPT !.pc = "done", !.resp = 200]]
  /\ UNCHANGED <<fmt, sessVars, startPc, timerArmed, sync, prov, ctlVars, cb, users, now,
                 grants>>

\* -------------------------------------------------------------- POST /callback
TxIds == 1..Len(tx)

\* SELECT id, phone_number FROM transactions WHERE mpesa_request_id=$1
\* (server.js:255); rows[0] is the row used.
TxByRequest(cid) == {t \in TxIds : tx[t].mpesa_request_id = cid}
FirstOf(S) == CHOOSE t \in S : \A u \in S : t <= u

\* SELECT profile_name FROM plans WHERE price=$1 AND active=true ORDER BY id
\* LIMIT 1 (server.js:272).
PlansByPriceAnyState(amount) == {i \in PlanIds : Plans[i].price = amount}

PlansByPrice(amount) == {i \in PlanIds : Plans[i].price = amount /\ Plans[i].active}

\* (SELECT duration FROM plans WHERE price=$1 LIMIT 1) (server.js:282-283):
\* any row with the price, in no stated order.
DurationsByPrice(amount) == {Plans[i].duration : i \in {j \in PlanIds : Plans[j].price = amount}}

\* The CASE of the UPDATE of users (server.js:280-284), NOW() being t.
ExtendedReset(activeUntil, t, d) == t + d

Extended(activeUntil, t, d) ==
  IF activeUntil = NoTime \/ activeUntil < t THEN t + d ELSE activeUntil + d

\* What a webhook may carry.
CheckoutIds == 0..(MaxPay + 1)
ResultCodes == {0, 1}
Amounts == {50, 7}
\* The gateway's receipt number of a payment request.
ReceiptOf(cid) == 100 + cid
\* The PhoneNumber item: another phone than the one /pay was called with, or
\* none, which falls back on the transaction's phone (server.js:268).
PayloadPhones == {PhoneB, NoPhone}

\* The webhooks that may arrive: failure webhooks, which carry no metadata
\* (the handler reads none of it), and success webhooks without or with their
\* metadata items.
Payloads ==
  {Payload(c, rc, FALSE, NULL, NoPhone) : c \in CheckoutIds, rc \in ResultCodes}
    \cup {Payload(c, 0, TRUE, a, p) :
            c \in CheckoutIds, a \in Amounts, p \in PayloadPhones}

\* The answer to a webhook whose correlation id locates no transaction
\* (server.js:256): res.json, a 200.
CbNotFoundError(c) == Responded(c, 404)

CbNotFound(c) == Responded(c, 200)

\* UPDATE transactions SET status='failed' (server.js:292).
MarkFailedForgotten(t) == tx

MarkFailed(t) == [tx EXCEPT ![t].status = "failed"]

\* The plan a success webhook resolves, or 0: the first row of PlansByPrice.
ResolvedPlan(amount) ==
  IF PlansByPrice(amount) = {} THEN 0 ELSE FirstOf(PlansByPrice(amount))

\* The webhook arrives (server.js:248-274, 291-294): the envelope is read and
\* the transaction is looked up; a failure webhook marks it failed; a success
\* webhook reads the metadata items, marks it success with the receipt and
\* resolves the plan by the amount (no plan, no entitlement).  The lookup is
\* joined to the UPDATE it leads to: the row a correlation id locates never
\* changes, ids being stored once, so where the lookup falls among the other
\* handlers' statements shows in no later state.
CbReceive(h) ==
  /\ cb[h].pc = "idle"
  /\ \A g \in CbIds : g < h => cb[g].pc # "idle"
  /\ \E req \in Payloads :
       IF req.cid = NULL
         THEN /\ cb' = [cb EXCEPT ![h] = Responded([IdleCb EXCEPT !.req = req], 400)]
              /\ UNCHANGED tx
       ELSE IF TxByRequest(req.cid) = {}
         THEN /\ cb' = [cb EXCEPT ![h] = CbNotFound([IdleCb EXCEPT !.req = req])]
              /\ UNCHANGED tx
       ELSE
         LET t == FirstOf(TxByRequest(req.cid))
             c == [IdleCb EXCEPT !.req = req, !.txId = t]
             paidPhone == IF req.phone # NoPhone THEN req.phone ELSE tx[t].phone_number
         IN IF req.rc # 0
              THEN /\ tx' = MarkFailed(t)
                   /\ cb' = [cb EXCEPT ![h] = Responded(c, 200)]
            ELSE IF ~req.meta
              THEN cb' = [cb EXCEPT ![h] = Responded(c, 500)] /\ UNCHANGED tx
            ELSE
              /\ tx' = [tx EXCEPT ![t].status = "success",
                                  ![t].mpesa_receipt = ReceiptOf(req.cid)]
              /\ cb' = [cb EXCEPT ![h] =
                   IF ResolvedPlan(req.amount) = 0 THEN Responded(c, 200)
                   ELSE [c EXCEPT !.pc = "user", !.amount = req.amount,
                                  !.paidPhone = paidPhone,
                                  !.profile = Plans[ResolvedPlan(req.amount)].profile_name]]
  /\ UNCHANGED <<fmt, sessVars, startPc, timerArmed, sync, prov, ctlVars, pay, users, now,
                 grants>>

\* SELECT id FROM users WHERE phone_number=$1 (server.js:275).
CbSelectUser(h) ==
  /\ cb[h].pc = "user"
  /\ cb' = [cb EXCEPT ![h].pc = IF users[cb[h].paidPhone].exists THEN "extend" ELSE "insert"]
  /\ UNCHANGED <<fmt, sessVars, startPc, timerArmed, sync, prov, ctlVars, pay, tx, users,
                 now, grants>>

\* INSERT INTO users (server.js:276); phone_number is UNIQUE (schema.sql:4), so
\* the insert of a phone that has a row by now fails and the handler answers 500.
CbInsert(h) ==
  /\ cb[h].pc = "insert"
  /\ IF users[cb[h].paidPhone].exists
       THEN /\ cb' = [cb EXCEPT ![h] = Responded(@, 500)]
            /\ UNCHANGED users
       ELSE /\ users' = [users EXCEPT ![cb[h].paidPhone] = [NoRow EXCEPT !.exists = TRUE]]
            /\ cb' = [cb EXCEPT ![h].pc = "extend"]
  /\ UNCHANGED <<fmt, sessVars, startPc, timerArmed, sync, prov, ctlVars, pay, tx, now,
                 grants>>

\* UPDATE users SET active_until (server.js:278-287), then createHotspotUser
\* starts (server.js:289).  The store's clock is read here only: now is NOW()
\* of the latest UPDATE, and any time up to MaxTime may have passed since.
CbExtend(h) ==
  /\ cb[h].pc = "extend"
  /\ \E t \in now..MaxTime, d \in DurationsByPrice(cb[h].amount) :
       /\ now' = t
       /\ users' = [users EXCEPT ![cb[h].paidPhone].active_until = Extended(@, t, d)]
  /\ grants' = [grants EXCEPT ![cb[h].txId] = @ + 1]
  /\ cb' = [cb EXCEPT ![h].pc = "provision"]
  /\ ProvBegin(h, cb[h].paidPhone, cb[h].profile)
  /\ UNCHANGED <<fmt, startPc, timerArmed, sync, ctlVars, pay, tx>>

\* ------------------------------------------------------- duration normaliser
\* A string is a sequence of one-character strings.
DigitChars == <<"0", "1", "2", "3", "4", "5", "6", "7", "8", "9">>
UpperChars == <<"A", "D", "E", "H", "I", "M", "N", "O", "R", "S", "U", "Y">>
LowerChars == <<"a", "d", "e", "h", "i", "m", "n", "o", "r", "s", "u", "y">>

IsDigit(c) == \E i \in DOMAIN DigitChars : DigitChars[i] = c
IsSpace(c) == c = " "

\* parseInt(text, 10) of a run of decimal digits.
RECURSIVE parseInt(_)
parseInt(ds) ==
  IF ds = <<>> THEN 0
  ELSE 10 * parseInt(SubSeq(ds, 1, Len(ds) - 1))
       + (CHOOSE i \in DOMAIN DigitChars : DigitChars[i] = ds[Len(ds)]) - 1

\* `${n}`: the decimal digits of a number.
RECURSIVE NumberToString(_)
NumberToString(n) ==
  IF n < 10 THEN <<DigitChars[n + 1]>>
  ELSE NumberToString(n \div 10) \o <<DigitChars[(n % 10) + 1]>>

toLowerCase(s) ==
  [k \in DOMAIN s |->
     IF \E i \in DOMAIN UpperChars : UpperChars[i] = s[k]
     THEN LowerChars[CHOOSE i \in DOMAIN UpperChars : UpperChars[i] = s[k]]
     ELSE s[k]]

trim(s) ==
  IF \A k \in DOMAIN s : IsSpace(s[k]) THEN <<>>
  ELSE LET first == CHOOSE i \in DOMAIN s :
                      ~IsSpace(s[i]) /\ \A k \in 1..(i - 1) : IsSpace(s[k])
           last  == CHOOSE j \in DOMAIN s :
                      ~IsSpace(s[j]) /\ \A k \in (j + 1)..Len(s) : IsSpace(s[k])
       IN SubSeq(s, first, last)

\* The position after the longest run of digits (of blanks) that starts at i.
DigitsEnd(s, i) ==
  CHOOSE j \in i..(Len(s) + 1) :
    /\ \A k \in i..(j - 1) : IsDigit(s[k])
    /\ j = Len(s) + 1 \/ ~IsDigit(s[j])
SpacesEnd(s, i) ==
  CHOOSE j \in i..(Len(s) + 1) :
    /\ \A k \in i..(j - 1) : IsSpace(s[k])
    /\ j = Len(s) + 1 \/ ~IsSpace(s[j])
HasAt(s, i, w) == i + Len(w) - 1 <= Len(s) /\ SubSeq(s, i, i + Len(w) - 1) = w
Least(S) == CHOOSE i \in S : \A j \in S : i <= j

\* s.match(/(\d+)\s*word/): the captured groups of the leftmost match, or <<>>
\* when there is none.  Neither a blank nor the word's first letter is a
\* digit, so the digits captured at a start are the whole run from it.
UnitStarts(s, w) ==
  {i \in DOMAIN s : IsDigit(s[i]) /\ HasAt(s, SpacesEnd(s, DigitsEnd(s, i)), w)}
UnitMatch(s, w) ==
  IF UnitStarts(s, w) = {} THEN <<>>
  ELSE LET i == Least(UnitStarts(s, w))
       IN <<SubSeq(s, i, DigitsEnd(s, i) - 1)>>

\* s.match(/(\d{1,2}):(\d{2}):(\d{2})/): at a start the two-digit hours are
\* tried before the one-digit hours.
TwoDigitsAt(s, i) == i + 1 <= Len(s) /\ IsDigit(s[i]) /\ IsDigit(s[i + 1])
TimeAt(s, i, n) ==
  /\ i + n - 1 <= Len(s)
  /\ \A k \in i..(i + n - 1) : IsDigit(s[k])
  /\ HasAt(s, i + n, <<":">>) /\ TwoDigitsAt(s, i + n + 1)
  /\ HasAt(s, i + n + 3, <<":">>) /\ TwoDigitsAt(s, i + n + 4)
TimeStarts(s) == {i \in DOMAIN s : TimeAt(s, i, 2) \/ TimeAt(s, i, 1)}
TimeMatch(s) ==
  IF TimeStarts(s) = {} THEN <<>>
  ELSE LET i == Least(TimeStarts(s))
           n == IF TimeAt(s, i, 2) THEN 2 ELSE 1
       IN <<SubSeq(s, i, i + n - 1), SubSeq(s, i + n + 1, i + n + 2),
            SubSeq(s, i + n + 4, i + n + 5)>>

\* /^[0-9dhms]+$/.test(out)
IsToken(out) ==
  out # <<>> /\ \A k \in DOMAIN out : IsDigit(out[k]) \/ out[k] \in {"d", "h", "m", "s"}

\* A result: a token, or null.
NoValue == [null |-> TRUE, s |-> <<>>]
Value(s) == [null |-> FALSE, s |-> s]

Unit(n, letter) == NumberToString(n) \o <<letter>>
UnitIfPositive(n, letter) == IF n > 0 THEN Unit(n, letter) ELSE <<>>

\* formatDurationForRouterOS of src/server.js.
formatDurationForRouterOS(raw) ==
  IF raw = <<>> THEN NoValue
  ELSE LET s == toLowerCase(trim(raw))
           dayMatch == UnitMatch(s, <<"d", "a", "y">>)
           timeMatch == TimeMatch(s)
           hrText == UnitMatch(s, <<"h", "o", "u", "r">>)
           minText == UnitMatch(s, <<"m", "i", "n">>)
           out1 == IF dayMatch # <<>> THEN Unit(parseInt(dayMatch[1]), "d") ELSE <<>>
           out2 == out1 \o (IF timeMatch # <<>>
                            THEN Unit(parseInt(timeMatch[1]), "h")
                                 \o Unit(parseInt(timeMatch[2]), "m")
                            ELSE <<>>)
           out3 == out2 \o (IF out2 = <<>> /\ hrText # <<>>
                            THEN Unit(parseInt(hrText[1]), "h") ELSE <<>>)
           out  == out3 \o (IF out3 = <<>> /\ minText # <<>>
                            THEN Unit(parseInt(minText[1]), "m") ELSE <<>>)
       IN IF IsToken(out) THEN Value(out) ELSE NoValue

\* formatDurationForRouterOS of src/update-env.js.
formatDurationForRouterOSUpdateEnv(raw) ==
  IF raw = <<>> THEN NoValue
  ELSE LET s == toLowerCase(trim(raw))
           dayMatch == UnitMatch(s, <<"d", "a", "y">>)
           timeMatch == TimeMatch(s)
           hrText == UnitMatch(s, <<"h", "o", "u", "r">>)
           minText == UnitMatch(s, <<"m", "i", "n">>)
           out1 == IF dayMatch # <<>>
                   THEN UnitIfPositive(parseInt(dayMatch[1]), "d") ELSE <<>>
           outH == out1 \o (IF timeMatch # <<>>
                            THEN UnitIfPositive(parseInt(timeMatch[1]), "h") ELSE <<>>)
           outM == outH \o (IF timeMatch # <<>>
                            THEN UnitIfPositive(parseInt(timeMatch[2]), "m") ELSE <<>>)
           out2 == outM \o (IF timeMatch # <<>> /\ outM = <<>>
                            THEN UnitIfPositive(parseInt(timeMatch[3]), "s") ELSE <<>>)
           out3 == out2 \o (IF out2 = <<>> /\ hrText # <<>>
                            THEN Unit(parseInt(hrText[1]), "h") ELSE <<>>)
           out  == out3 \o (IF out3 = <<>> /\ minText # <<>>
                            THEN Unit(parseInt(minText[1]), "m") ELSE <<>>)
       IN IF out # <<>> /\ IsToken(out) THEN Value(out) ELSE NoValue

\* The durations the function is applied to: an optional day count followed by
\* an optional HH:MM:SS part, textual durations, and controller tokens.
DayTexts ==
  {<<>>,
   <<"1", " ", "d", "a", "y", " ">>,
   <<"2", " ", "d", "a", "y", "s", " ">>,
   <<"0", " ", "d", "a", "y", "s", " ">>,
   <<"1", "0", " ", "d", "a", "y", "s", " ">>}
TimeTexts ==
  {<<>>,
   <<"0", "2", ":", "0", "0", ":", "0", "0">>,
   <<"0", "0", ":", "3", "0", ":", "0", "0">>,
   <<"0", "0", ":", "0", "0", ":", "4", "5">>,
   <<"0", "0", ":", "0", "0", ":", "0", "0">>,
   <<"1", ":", "0", "5", ":", "0", "0">>,
   <<"1", "2", ":", "3", "4", ":", "5", "6">>,
   <<"0", "2", ":", "3", "0", ":", "0", "0">>}
OtherTexts ==
  {<<"g", "a", "r", "b", "a", "g", "e">>,
   <<"2", " ", "h", "o", "u", "r", "s">>,
   <<"3", "0", " ", "m", "i", "n", "u", "t", "e", "s">>,
   <<"1", " ", "h", "o", "u", "r", " ", "3", "0", " ", "m", "i", "n">>,
   <<"9", "0", " ", "m", "i", "n">>,
   <<"2", " ", "H", "O", "U", "R", "S">>,
   <<"1", " ", "D", "a", "y">>,
   <<" ", " ", "3", " ", "d", "a", "y", "s", " ">>,
   <<"1", " ", "d", "a", "y", " ", "2", " ", "h", "o", "u", "r", "s">>,
   <<"1", "2", ":", "3", "4">>,
   <<"7">>,
   <<" ">>}
TokenTexts ==
  {<<"1", "d", "2", "h">>,
   <<"3", "0", "m">>,
   <<"1", "d", "2", "h", "0", "m">>,
   <<"0", "h", "3", "0", "m">>,
   <<"4", "5", "s">>,
   <<"2", "h">>,
   <<"1", "d">>}
DurationTexts ==
  {d \o t : d \in DayTexts, t \in TimeTexts} \cup OtherTexts \cup TokenTexts

Copies == {"server.js", "update-env.js"}
Format(copy, raw) ==
  IF copy = "server.js" THEN formatDurationForRouterOS(raw)
  ELSE formatDurationForRouterOSUpdateEnv(raw)

IdleFmt == [pc |-> "idle", copy |-> "", raw |-> <<>>, out |-> NoValue, again |-> NoValue]

\* A caller passes a duration to one of the two copies.
FormatCall ==
  /\ fmt.pc = "idle"
  /\ \E copy \in Copies, raw \in DurationTexts :
       fmt' = [IdleFmt EXCEPT !.pc = "once", !.copy = copy, !.raw = raw,
                              !.out = Format(copy, raw)]
  /\ UNCHANGED <<sessVars, startPc, timerArmed, sync, prov, ctlVars, payVars>>

\* The token it returned is passed to the same copy again.
FormatAgain ==
  /\ fmt.pc = "once"
  /\ ~fmt.out.null
  /\ fmt' = [fmt EXCEPT !.pc = "twice", !.again = Format(fmt.copy, fmt.out.s)]
  /\ UNCHANGED <<sessVars, startPc, timerArmed, sync, prov, ctlVars, payVars>>

\* ------------------------------------------------------------------ initial state
Init ==
  /\ mikrotikApi = NULL
  /\ mikrotikConn = NULL
  /\ apiState = [a \in ApiIds |-> "none"]
  /\ startPc = "init"
  /\ timerArmed = FALSE
  /\ sync = [r \in SyncIds |-> IdleSync]
  /\ prov = [h \in CbIds |-> IdleProv]
  /\ profiles = {}
  /\ hsUsers = [p \in Phones |-> NoUser]
  /\ ctlLog = [adds |-> [n \in ProfileNames |-> 0], overlap |-> FALSE]
  /\ pay = [k \in PayIds |-> IdlePay]
  /\ cb = [h \in CbIds |-> IdleCb]
  /\ tx = <<>>
  /\ users = [p \in Phones |-> NoRow]
  /\ now = 0
  /\ grants = <<>>
  /\ fmt = IdleFmt

\* The plan directory sync: start-up, interval ticks, the runs and the
\* transport's events.
NextSync ==
  \/ StartListen
  \/ StartConnected
  \/ StartConnectFailed
  \/ SyncTick
  \/ \E r \in SyncIds : SyncConnected(r)
  \/ \E r \in SyncIds : SyncConnectFailed(r)
  \/ \E r \in SyncIds : SyncLookup(r)
  \/ \E r \in SyncIds : SyncAdd(r)
  \/ \E a \in ApiIds : ErrorEvent(a)

SpecSync == Init /\ [][NextSync]_vars

\* The session manager under its concurrent callers: the start-up connect,
\* the provisioning calls of webhooks and the transport's events.
NextSession ==
  \/ StartListen
  \/ StartConnected
  \/ StartConnectFailed
  \/ ProvInvoke
  \/ \E h \in CbIds : ProvConnected(h)
  \/ \E h \in CbIds : ProvConnectFailed(h)
  \/ \E h \in CbIds : ProvRemove(h)
  \/ \E h \in CbIds : ProvAdd(h)
  \/ \E a \in ApiIds : ErrorEvent(a)

SpecSession == Init /\ [][NextSession]_vars


\* The payment pipeline: /pay requests and webhooks with their provisioning.
Next ==
  \/ \E k \in PayIds : PayReceive(k)
  \/ \E k \in PayIds : PayGateway(k)
  \/ \E k \in PayIds : PayStore(k)
  \/ \E h \in CbIds : CbReceive(h)
  \/ \E h \in CbIds : CbSelectUser(h)
  \/ \E h \in CbIds : CbInsert(h)
  \/ \E h \in CbIds : CbExtend(h)
  \/ \E h \in CbIds : ProvConnected(h)
  \/ \E h \in CbIds : ProvConnectFailed(h)
  \/ \E h \in CbIds : ProvRemove(h)
  \/ \E h \in CbIds : ProvAdd(h)

Spec == Init /\ [][Next]_vars

\* The duration normaliser applied to a duration, and to its own result.
NextFormat ==
  \/ FormatCall
  \/ FormatAgain

SpecFormat == Init /\ [][NextFormat]_vars

\* ------------------------------------------------ claims: the payment pipeline
\* C1: once a transaction's status is success or failed, no later webhook
\* changes it.
C1_TerminalStatusKept ==
  [][\A t \in TxIds :
       tx[t].status \in {"success", "failed"} => tx'[t].status = tx[t].status]_vars

\* C2: however often the success webhook of a payment is delivered, the
\* payment extends active_until once.
C2_ExtendedOncePerPayment ==
  \A t \in TxIds : grants[t] <= 1

\* C3: the UPDATE of a success webhook sets active_until to the old value plus
\* the duration read for the paid amount when the old value is in the future,
\* and to NOW() plus that duration when it is absent or in the past.
C3_StackingRule ==
  [][\A h \in CbIds :
       (cb[h].pc = "extend" /\ cb'[h].pc = "provision")
         => LET old == users[cb[h].paidPhone].active_until
                new == users'[cb[h].paidPhone].active_until
            IN \E d \in DurationsByPrice(cb[h].amount) :
                 new = IF old # NoTime /\ old > now' THEN old + d ELSE now' + d]_vars

\* A window has been stacked on one that was still open: no single grant
\* reaches three ticks past the clock.
C3_Witness ==
  \E p \in Phones : users[p].exists /\ users[p].active_until >= now + 3

\* C4: no step takes a user row away or moves its active_until back.
C4_ActiveUntilMonotonic ==
  [][\A p \in Phones :
       users[p].exists
         => /\ users'[p].exists
            /\ users'[p].active_until >= users[p].active_until]_vars

\* A user holds a window although the provisioning of a webhook failed, and a
\* further webhook has been handled since.
C4_Witness ==
  \E h, g \in CbIds :
    /\ h < g
    /\ prov[h].pc = "threw"
    /\ users[prov[h].phone].active_until > 0
    /\ cb[g].pc = "done"

\* ------------------------------------------------- claims: the session manager
ConnectAttempts == {a \in ApiIds : Connecting(a)}

\* C5: connection establishment is serialized: at most one connect attempt is
\* in flight at any time, and no connection is open that is not the held one.
C5_Serialized ==
  /\ Cardinality(ConnectAttempts) <= 1
  /\ \A a \in ApiIds : apiState[a] = "connected" => mikrotikConn = a

\* C6: a transport error event, while connecting or connected, leaves the
\* manager holding no session; the held session is never a dead handle, and a
\* caller is only ever handed a connection whose transport is connected.
C6_ErrorInvalidates ==
  /\ [][(\E a \in ApiIds : Live(a) /\ apiState'[a] \in {"errored", "errconn"})
          => (mikrotikConn' = NULL /\ mikrotikApi' = NULL)]_vars
  /\ [](mikrotikConn # NULL => apiState[mikrotikConn] = "connected")
  /\ [][\A h \in CbIds :
          (prov[h].conn = NULL /\ prov'[h].conn # NULL)
            => apiState'[prov'[h].conn] = "connected"]_vars

\* An api has signalled an error event, and a later connect holds a session.
C6_Witness ==
  \E a, b \in ApiIds :
    /\ a < b
    /\ apiState[a] = "errored"
    /\ apiState[b] = "connected"
    /\ mikrotikConn = b

\* C7: a connect attempt that fails or times out leaves both references null
\* and rethrows to its caller.
C7_FailedConnectResets ==
  [][\A a \in ApiIds :
       (Connecting(a) /\ apiState'[a] = "failed")
         => /\ mikrotikApi' = NULL
            /\ mikrotikConn' = NULL
            /\ (startPc = "connecting" /\ a = 1) => startPc' = "failed"
            /\ \A h \in CbIds : prov[h].api = a => prov'[h].pc = "threw"]_vars

\* A connect attempt failed and a later call is making a new attempt.
C7_Witness ==
  \E a, b \in ApiIds :
    /\ a < b
    /\ apiState[a] = "failed"
    /\ apiState[b] = "connecting"
    /\ mikrotikApi = b

\* ---------------------------------------------- claims: the plan directory sync
\* C8: over runs in succession none of whose commands failed, the profile add
\* is issued at most once for each profile name.
C8_AddAtMostOnce ==
  (~ctlLog.overlap /\ \A r \in SyncIds : sync[r].failed = {})
    => \A n \in ProfileNames : ctlLog.adds[n] <= 1

\* C9: once the app.listen callback is over, with the start-up connect failed
\* or not, the interval timer is registered, so later ticks run the sync.
C9_IntervalAfterStart ==
  startPc \in {"failed", "armed"} => timerArmed

\* C10: a run that obtained a session looks up every active plan with a
\* profile name and issues the add for each it found absent, whatever lookups
\* or adds failed on the way.
C10_BatchContinues ==
  \A r \in SyncIds :
    (sync[r].pc = "done" /\ sync[r].conn # NULL)
      => /\ sync[r].looked = ActiveNamed
         /\ sync[r].absent \subseteq sync[r].added

\* A run is over in which a command for one plan failed and a later plan was
\* still looked up and added.
C10_Witness ==
  \E r \in SyncIds : \E i, j \in ActiveNamed :
    /\ sync[r].pc = "done"
    /\ i < j
    /\ i \in sync[r].failed
    /\ j \in sync[r].looked
    /\ j \in sync[r].added

\* ------------------------------------------ claims: the entitlement provisioner
\* C11: a call of createHotspotUser that obtained a session writes the remove
\* of the subscriber named phone first and then the add with name and password
\* phone and the profile when one is given; the call is not over before the
\* add has been written, whether the remove failed or not.
C11_RemoveThenAdd ==
  \A h \in CbIds :
    prov[h].conn # NULL =>
      LET log == prov[h].log
      IN /\ Len(log) <= 2
         /\ Len(log) >= 1 =>
              /\ log[1].cmd = "remove"
              /\ log[1].args.name = prov[h].phone
         /\ Len(log) = 2 =>
              /\ log[2].cmd = "add"
              /\ log[2].args.name = prov[h].phone
              /\ log[2].args.password = prov[h].phone
              /\ log[2].args.profile =
                   IF prov[h].profile # "" THEN <<prov[h].profile>> ELSE <<>>
         /\ prov[h].pc = "remove" => Len(log) = 0
         /\ prov[h].pc = "add" => Len(log) = 1
         /\ prov[h].pc \in {"ok", "threw"} => Len(log) = 2

\* A call whose remove failed has gone on to an add that succeeded.
C11_Witness ==
  \E h \in CbIds :
    /\ prov[h].pc = "ok"
    /\ Len(prov[h].log) = 2
    /\ ~prov[h].log[1].ok
    /\ prov[h].log[2].ok

\* C12: a call of createHotspotUser that obtained a session throws to its
\* caller exactly when its add failed; a failed remove alone never makes it
\* throw.
C12_AddFailurePropagates ==
  \A h \in CbIds :
    (prov[h].conn # NULL /\ prov[h].pc \in {"ok", "threw"})
      => (prov[h].pc = "threw" <=> ~prov[h].log[2].ok)

\* One call threw on a failed add after a remove that succeeded, and another
\* returned normally after a remove that failed.
C12_Witness ==
  \E h, g \in CbIds :
    /\ prov[h].pc = "threw" /\ Len(prov[h].log) = 2
    /\ prov[h].log[1].ok /\ ~prov[h].log[2].ok
    /\ prov[g].pc = "ok" /\ Len(prov[g].log) = 2
    /\ ~prov[g].log[1].ok /\ prov[g].log[2].ok

\* --------------------------------------------- claims: the webhook's outcomes
\* C13: the step in which a webhook's provisioning ends, failed or not, answers
\* 200 and leaves the transactions and the users as they were; a webhook whose
\* provisioning failed has kept its user row with a window and its
\* transaction's receipt.
C13_ProvisionFailureKept ==
  /\ [][\A h \in CbIds :
          (cb[h].pc = "provision" /\ cb'[h].pc = "done")
            => /\ cb'[h].resp = 200
               /\ tx' = tx
               /\ users' = users]_vars
  /\ [](\A h \in CbIds :
          (cb[h].pc = "done" /\ prov[h].pc = "threw")
            => /\ cb[h].resp = 200
               /\ users[prov[h].phone].exists
               /\ users[prov[h].phone].active_until # NoTime
               /\ tx[cb[h].txId].mpesa_receipt # NULL)

\* One webhook's provisioning failed at the connect and another's at the add;
\* both are answered and both transactions are success.
C13_Witness ==
  \E h, g \in CbIds :
    /\ cb[h].pc = "done" /\ prov[h].pc = "threw" /\ prov[h].conn = NULL
    /\ cb[g].pc = "done" /\ prov[g].pc = "threw" /\ prov[g].conn # NULL
    /\ Len(prov[g].log) = 2 /\ ~prov[g].log[2].ok
    /\ tx[cb[h].txId].status = "success"
    /\ tx[cb[g].txId].status = "success"

\* C14: a webhook whose correlation id is on no transaction is answered 200 in
\* the step that receives it, and that step changes no transaction, no user
\* row, no grant and nothing of the controller or its session.
C14_UnknownIdBenign ==
  [][\A h \in CbIds :
       (/\ cb[h].pc = "idle" /\ cb'[h].pc # "idle"
        /\ cb'[h].req.cid # NULL
        /\ \A t \in TxIds : tx[t].mpesa_request_id # cb'[h].req.cid)
         => /\ cb'[h].pc = "done"
            /\ cb'[h].resp = 200
            /\ tx' = tx /\ users' = users /\ grants' = grants
            /\ prov' = prov /\ hsUsers' = hsUsers /\ profiles' = profiles
            /\ apiState' = apiState /\ mikrotikConn' = mikrotikConn]_vars

\* A webhook with an id no transaction has was answered while a transaction
\* with another id was there.
C14_Witness ==
  \E h \in CbIds :
    /\ cb[h].pc = "done" /\ cb[h].resp = 200
    /\ cb[h].req.cid # NULL /\ cb[h].txId = NULL
    /\ \E t \in TxIds : tx[t].mpesa_request_id \notin {NULL, cb[h].req.cid}

\* C15: a success webhook for a located transaction whose amount is the price
\* of no active plan marks the transaction success and is over in that step:
\* no user row, no active_until, no grant and nothing of the controller changes.
C15_NoPlanNoEntitlement ==
  [][\A h \in CbIds :
       (/\ cb[h].pc = "idle" /\ cb'[h].pc # "idle"
        /\ cb'[h].req.rc = 0 /\ cb'[h].req.meta
        /\ cb'[h].txId # NULL
        /\ \A i \in PlanIds : ~(Plans[i].active /\ Plans[i].price = cb'[h].req.amount))
         => /\ cb'[h].pc = "done"
            /\ cb'[h].resp = 200
            /\ tx'[cb'[h].txId].status = "success"
            /\ users' = users /\ grants' = grants
            /\ prov' = prov /\ hsUsers' = hsUsers /\ profiles' = profiles
            /\ apiState' = apiState /\ mikrotikConn' = mikrotikConn]_vars

\* A success webhook with the price of an inactive plan only has been handled:
\* its transaction is success and no user row exists.
C15_Witness ==
  \E h \in CbIds :
    /\ cb[h].pc = "done" /\ cb[h].req.rc = 0 /\ cb[h].req.meta
    /\ cb[h].req.amount = Plans[5].price
    /\ cb[h].txId # NULL
    /\ tx[cb[h].txId].status = "success"
    /\ \A p \in Phones : ~users[p].exists

\* C16: a failure webhook for a located transaction marks that transaction
\* failed and is over in that step, which changes nothing else: no other
\* column or row of transactions, no user row, no grant, nothing of the
\* controller or its session.
C16_FailureOnlyMarks ==
  [][\A h \in CbIds :
       (/\ cb[h].pc = "idle" /\ cb'[h].pc # "idle"
        /\ cb'[h].req.rc # 0
        /\ cb'[h].txId # NULL)
         => /\ cb'[h].pc = "done"
            /\ tx' = [tx EXCEPT ![cb'[h].txId].status = "failed"]
            /\ users' = users /\ grants' = grants
            /\ prov' = prov /\ hsUsers' = hsUsers /\ profiles' = profiles
            /\ apiState' = apiState /\ mikrotikConn' = mikrotikConn]_vars

\* A failure webhook has been handled for a pending transaction while a user
\* row with a window was there.
C16_Witness ==
  \E h \in CbIds :
    /\ cb[h].pc = "done" /\ cb[h].req.rc # 0 /\ cb[h].txId # NULL
    /\ tx[cb[h].txId].status = "failed"
    /\ tx[cb[h].txId].mpesa_receipt = NULL
    /\ \E p \in Phones : users[p].exists /\ users[p].active_until # NoTime

\* -------------------------------------------------------- claims: POST /pay
\* C17: a /pay request whose phone is not 254 followed by nine digits, or whose
\* plan_id is the id of no active plan, is answered 400 in the step that
\* receives it; no transaction row is created and the handler never gets to
\* the gateway.
C17_InvalidPayRejected ==
  [][\A k \in PayIds :
       (/\ pay[k].pc = "idle" /\ pay'[k].pc # "idle"
        /\ LET phone == pay'[k].req.phone
               planId == pay'[k].req.plan_id
           IN \/ ~(/\ Len(phone) = 12
                   /\ SubSeq(phone, 1, 3) = <<2, 5, 4>>
                   /\ \A i \in 4..12 : phone[i] \in 0..9)
              \/ ~\E i \in PlanIds : Plans[i].id = planId /\ Plans[i].active)
         => /\ pay'[k].pc = "done"
            /\ pay'[k].resp = 400
            /\ pay'[k].txId = NULL
            /\ pay'[k].checkoutId = NULL
            /\ tx' = tx]_vars

\* The local-format phone and the inactive plan have both been refused, and
\* the transactions table is still empty.
C17_Witness ==
  \E k, j \in PayIds :
    /\ pay[k].pc = "done" /\ pay[k].resp = 400 /\ pay[k].req.phone = PhoneLocal
    /\ pay[j].pc = "done" /\ pay[j].resp = 400 /\ pay[j].req = PayRequest(PhoneA, 2)
    /\ tx = <<>>

\* C18: a webhook that has a correlation id and ResultCode 0 but no callback
\* metadata is answered 200 or a 4xx, never a 5xx.
C18_NoServerError ==
  \A h \in CbIds :
    (/\ cb[h].pc = "done"
     /\ cb[h].req.cid # NULL /\ cb[h].req.rc = 0 /\ ~cb[h].req.meta)
      => cb[h].resp \in {200} \cup (400..499)

\* C19: the UPDATE of a success webhook adds the duration of the lowest-id
\* active plan whose price is the reported amount, and the profile handed to
\* the provisioner is that plan's.
C19_SamePlanDurationAndProfile ==
  [][\A h \in CbIds :
       (cb[h].pc = "extend" /\ cb'[h].pc = "provision")
         => LET S == {i \in PlanIds : Plans[i].active /\ Plans[i].price = cb[h].amount}
                plan == Plans[CHOOSE i \in S : \A j \in S : i <= j]
                old == users[cb[h].paidPhone].active_until
                new == users'[cb[h].paidPhone].active_until
            IN /\ new = (IF old # NoTime /\ old >= now' THEN old ELSE now') + plan.duration
               /\ prov'[h].profile = plan.profile_name]_vars

\* C20: once the UPDATE of a success webhook is done, the user row of the paid
\* phone is there and its profile binding is the resolved plan's profile.
C20_ProfileBindingStored ==
  [][\A h \in CbIds :
       (cb[h].pc = "extend" /\ cb'[h].pc = "provision")
         => /\ users'[cb[h].paidPhone].exists
            /\ users'[cb[h].paidPhone].profile = cb[h].profile]_vars

\* ------------------------------------------------- claims: the correlation id
\* C21: a /pay request for a valid phone and an active plan appends one
\* transaction, pending, with the plan's price and the request's phone; once
\* it is answered 200 its checkoutId is on that transaction and on no other;
\* a success webhook with its metadata and that id marks that transaction
\* success and changes no other transaction.
C21_PayCorrelates ==
  /\ [][\A k \in PayIds :
          (pay[k].pc = "idle" /\ pay'[k].pc = "gateway")
            => /\ Len(tx') = Len(tx) + 1
               /\ SubSeq(tx', 1, Len(tx)) = tx
               /\ pay'[k].txId = Len(tx')
               /\ tx'[Len(tx')].status = "pending"
               /\ tx'[Len(tx')].phone_number = pay'[k].req.phone
               /\ \E i \in PlanIds :
                    /\ Plans[i].id = pay'[k].req.plan_id /\ Plans[i].active
                    /\ tx'[Len(tx')].amount = Plans[i].price]_vars
  /\ [](\A k \in PayIds :
          (pay[k].pc = "done" /\ pay[k].resp = 200)
            => /\ pay[k].checkoutId # NULL
               /\ \A t \in TxIds :
                    tx[t].mpesa_request_id = pay[k].checkoutId <=> t = pay[k].txId)
  /\ [](Len(tx) = Cardinality({k \in PayIds : pay[k].txId # NULL}))
  /\ [][\A h \in CbIds : \A k \in PayIds :
          (/\ pay[k].pc = "done" /\ pay[k].resp = 200
           /\ cb[h].pc = "idle" /\ cb'[h].pc # "idle"
           /\ cb'[h].req.cid = pay[k].checkoutId
           /\ cb'[h].req.rc = 0 /\ cb'[h].req.meta)
            => /\ tx'[pay[k].txId].status = "success"
               /\ \A t \in TxIds : t # pay[k].txId => tx'[t] = tx[t]]_vars

\* Two requests were accepted; the webhook of the second has marked its
\* transaction success and the first is still pending.
C21_Witness ==
  /\ \A k \in PayIds : pay[k].pc = "done" /\ pay[k].resp = 200
  /\ Len(tx) = 2
  /\ tx[1].status = "pending"
  /\ tx[2].status = "success"
  /\ tx[2].mpesa_receipt = ReceiptOf(pay[2].checkoutId)


\* ------------------------------------------------ claims: the duration normaliser
\* C22: formatDurationForRouterOS maps "1 day 02:00:00" to "1d2h" and
\* "00:30:00" to "30m" (a zero hour or minute component contributes no
\* segment), and maps the empty string and "garbage" to no value.
C22_Examples ==
  fmt.pc # "idle" =>
    /\ fmt.raw = <<"1", " ", "d", "a", "y", " ", "0", "2", ":", "0", "0", ":", "0", "0">>
         => fmt.out = Value(<<"1", "d", "2", "h">>)
    /\ fmt.raw = <<"0", "0", ":", "3", "0", ":", "0", "0">>
         => fmt.out = Value(<<"3", "0", "m">>)
    /\ fmt.raw = <<>> => fmt.out = NoValue
    /\ fmt.raw = <<"g", "a", "r", "b", "a", "g", "e">> => fmt.out = NoValue

\* C23: formatDurationForRouterOS is idempotent: applied to a token it
\* returned, it returns that token unchanged.
C23_Idempotent == fmt.pc = "twice" => fmt.again = fmt.out


\* ------------------------------------------ claims: the controller command executor
\* C24: routerPrint never propagates a failure: a lookup whose write or read
\* failed yields the empty sequence; any other yields the records of the
\* response in order, those of the one read of a cursor, those of a direct
\* list, or the single record as a one-element sequence.
C24_RecordsInOrder ==
  [][\A r \in SyncIds :
       (sync[r].pc = "lookup" /\ sync'[r] # sync[r]) =>
         LET res == sync'[r].res
             first == IF res.t = "cur" THEN res.v[1] ELSE res
         IN sync'[r].items =
              IF sync[r].i \in sync'[r].failed THEN Arr(<<>>)
              ELSE IF first.t = "arr" THEN first
              ELSE IF first.t = "obj" THEN Arr(first.v)
              ELSE Arr(<<>>)]_vars


\* ------------------------------------------------- claims: stale transport events
\* C25: an error event of the connector of an earlier connection, one made
\* before the connection now held, neither closes the held connection nor
\* drops the manager's reference to it.
C25_StaleErrorHarmless ==
  [][\A a \in ApiIds :
       (/\ Live(a)
        /\ apiState'[a] \in {"errconn", "errored"}
        /\ mikrotikConn # NULL
        /\ a < mikrotikConn)
         => /\ mikrotikConn' = mikrotikConn
            /\ apiState'[mikrotikConn] = apiState[mikrotikConn]]_vars


\* --------------------------------------------- claims: webhooks racing the store
\* C26: a webhook the gateway delivers for a push it has accepted takes the
\* transaction out of pending, whether /pay has stored the correlation id on
\* the row by then or not.  (The gateway delivers a webhook once when it is
\* answered; the success webhook that lacks its metadata is left aside.)
C26_DeliveredLeavesPending ==
  [][\A h \in CbIds, k \in PayIds :
       (/\ pay[k].pc \in {"store", "done"}
        /\ pay[k].checkoutId # NULL
        /\ cb[h].pc = "idle" /\ cb'[h].pc # "idle"
        /\ cb'[h].req.cid = pay[k].checkoutId
        /\ cb'[h].req.rc # 0 \/ cb'[h].req.meta)
         => tx'[pay[k].txId].status # "pending"]_vars


\* C27: once two success webhooks that credit the same phone, each for a
\* transaction of its own and for an amount that resolves to a plan, are both
\* over, the phone has its user row, each of the two payments has extended
\* active_until, and neither handler has answered with a server error.
C27_BothGrantsKept ==
  \A h, g \in CbIds :
    (/\ h # g
     /\ cb[h].pc = "done" /\ cb[g].pc = "done"
     /\ cb[h].txId # NULL /\ cb[g].txId # NULL /\ cb[h].txId # cb[g].txId
     /\ \A c \in {cb[h], cb[g]} :
          c.req.rc = 0 /\ c.req.meta /\ PlansByPrice(c.req.amount) # {}
     /\ (IF cb[h].req.phone # NoPhone THEN cb[h].req.phone
         ELSE tx[cb[h].txId].phone_number)
        = (IF cb[g].req.phone # NoPhone THEN cb[g].req.phone
           ELSE tx[cb[g].txId].phone_number))
      => /\ cb[h].resp = 200 /\ cb[g].resp = 200
         /\ grants[cb[h].txId] >= 1 /\ grants[cb[g].txId] >= 1
         /\ \A c \in {cb[h], cb[g]} :
              users[IF c.req.phone # NoPhone THEN c.req.phone
                    ELSE tx[c.txId].phone_number].exists


\* ------------------------------------------- claims: whom and what a payment credits
\* C28: the step of a success webhook that extends active_until and starts the
\* provisioning credits the phone number recorded on the transaction the
\* correlation id located, whatever phone number the payload reported: no
\* other phone's user row changes and the subscriber provisioned is that phone.
C28_CreditsTransactionPhone ==
  [][\A h \in CbIds :
       (cb[h].pc = "extend" /\ cb'[h].pc = "provision")
         => LET phone == tx[cb[h].txId].phone_number
            IN /\ \A p \in Phones : p # phone => users'[p] = users[p]
               /\ users'[phone].active_until # NoTime
               /\ prov'[h].phone = phone]_vars


\* C29: the plan a success webhook resolves for a located transaction, whose
\* profile it hands to the provisioning and by whose duration it extends
\* active_until, is the plan whose id the /pay request that created the
\* transaction selected, whatever amount the webhook reports.
C29_GrantsSelectedPlan ==
  /\ [][\A h \in CbIds, k \in PayIds :
          (/\ cb[h].pc = "idle" /\ cb'[h].pc = "user"
           /\ pay[k].txId = cb'[h].txId)
            => cb'[h].profile = Plans[pay[k].req.plan_id].profile_name]_vars
  /\ [][\A h \in CbIds, k \in PayIds :
          (/\ cb[h].pc = "extend" /\ cb'[h].pc = "provision"
           /\ pay[k].txId = cb[h].txId)
            => LET plan == Plans[pay[k].req.plan_id]
                   old == users[cb[h].paidPhone].active_until
                   new == users'[cb[h].paidPhone].active_until
               IN /\ prov'[h].profile = plan.profile_name
                  /\ new = IF old # NoTime /\ old > now' THEN old + plan.duration
                           ELSE now' + plan.duration]_vars

====
